---- MODULE Spec2Model ----
(***************************************************************************)
(* Groot: a minimal content-addressed version-control engine               *)
(* (src/groot.mjs).  The repository is three things on disk: the objects   *)
(* directory (.groot/objects, one file per hash), the HEAD file and the    *)
(* index file.  Every method of class Groot is an async function; each     *)
(* awaited fs call is one atomic step of the model, and the synchronous    *)
(* code that follows an await up to the next await belongs to the same     *)
(* step.  A single fs.writeFile / fs.readFile is taken to be atomic.       *)
(***************************************************************************)
EXTENDS Integers, Sequences, FiniteSets, TLC

\* ---- bounds of the model ------------------------------------------------
NumProcs   == 2      \* callers that may run a method
MaxCommits == 2      \* commit objects ever hashed
MaxAdds    == 2      \* entries ever staged (in the index or in a hashed commit)
MaxCrashes == 1      \* crashes in one run

Procs    == 1..NumProcs
Paths    == {"a.txt", "b.txt"}     \* arguments of add
Contents == {"hello", "world"}     \* contents a working-tree file may have
Messages == {"first"}              \* arguments of commit

\* ---- values ---------------------------------------------------------------
ENOENT == "<ENOENT>"     \* fs.readFile rejected: no such file
null   == "<null>"       \* the JavaScript value null (distinct from "")
undefined == "<undefined>"   \* the JavaScript value undefined
NoSuchHash == "deadbeef"     \* a hash under which nothing was ever stored

VARIABLES
  objectsDir,   \* TRUE iff .groot/objects exists
  headFile,     \* [exists, content]: .groot/HEAD, content a string
  indexFile,    \* [exists, content]: .groot/index, content the parsed JSON array
  objects,      \* hash -> content of the file .groot/objects/<hash>
  sha1,         \* digests computed so far: sha1[i] is the content whose hash is HashName(i)
  pc,           \* pc[p]: the await at which caller p is suspended, or "idle"
  local,        \* local[p]: the local variables of the method p is running
  outcome,      \* outcome[p]: how the last method run by p ended, "none" while one runs
  committed,    \* history: hashes of the commits that ran to completion, oldest first
  staged,       \* history: entries of the adds that ran to completion since the last completed commit
  crashes       \* history: number of crashes so far

vars == <<objectsDir, headFile, indexFile, objects, sha1, pc, local,
          outcome, committed, staged, crashes>>

repo == <<objectsDir, headFile, indexFile, objects>>

\* ---- helpers --------------------------------------------------------------
\* JavaScript truthiness of a string-or-null value
Truthy(v) == v # "" /\ v # null

\* the hex digest naming the i-th distinct content
HashName(i) == "h" \o ToString(i)

\* position of content in the digest table (a fresh position if never hashed)
Digest(content) ==
  IF \E i \in 1..Len(sha1) : sha1[i] = content
  THEN CHOOSE i \in 1..Len(sha1) : sha1[i] = content
  ELSE Len(sha1) + 1

\* the digest table after hashing content
Intern(content) ==
  IF \E i \in 1..Len(sha1) : sha1[i] = content THEN sha1 ELSE Append(sha1, content)

\* hashObject(content): deterministic, equal contents give equal hashes and
\* different contents different hashes (SHA-1 taken to be collision free)
hashObjectCollides(content) == HashName(1)
hashObject(content) == HashName(Digest(content))

\* a stored blob and a stored commit (JSON.stringify(commitData))
Blob(data) == [data |-> data]
IsCommit(content) == "parent" \in DOMAIN content
IsBlob(content) == "data" \in DOMAIN content

\* fs.writeFile(path.join(objectsPath, hash), content)
WriteObject(hash, content) ==
  [h \in DOMAIN objects \cup {hash} |-> IF h = hash THEN content ELSE objects[h]]

NoLocal ==
  [path |-> "", fileData |-> "", fileHash |-> "", index |-> <<>>,
   message |-> "", parentCommit |-> "", timeStamp |-> 0, commitHash |-> "",
   currentCommitHash |-> "", fileNo |-> 0, out |-> <<>>]

\* the commitData object built by commit
CommitDataDropsFiles(l) ==
  [timeStamp |-> l.timeStamp, message |-> l.message, files |-> <<>>,
   parent |-> l.parentCommit]
CommitDataNoParent(l) ==
  [timeStamp |-> l.timeStamp, message |-> l.message, files |-> l.index,
   parent |-> ""]
commitData(l) ==
  [timeStamp |-> l.timeStamp, message |-> l.message, files |-> l.index,
   parent |-> l.parentCommit]

\* getCurrentHead(): content of HEAD, or null when the read fails
getCurrentHead == IF headFile.exists THEN headFile.content ELSE null

NumCommitsHashed == Cardinality({i \in 1..Len(sha1) : IsCommit(sha1[i])})

RECURSIVE EntriesHashed(_)
EntriesHashed(i) ==
  IF i = 0 THEN 0
  ELSE (IF IsCommit(sha1[i]) THEN Len(sha1[i].files) ELSE 0) + EntriesHashed(i - 1)

\* entries of completed adds that the index does not hold (none under a single writer)
NumOverwritten ==
  IF Len(staged) > Len(indexFile.content) THEN Len(staged) - Len(indexFile.content) ELSE 0

\* entries staged so far: those in the index, those in a commit already hashed and
\* those overwritten in the index
NumEntries == Len(indexFile.content) + EntriesHashed(Len(sha1)) + NumOverwritten

\* caller p goes to await `to` with locals l
Goto(p, to, l) ==
  /\ pc' = [pc EXCEPT ![p] = to]
  /\ local' = [local EXCEPT ![p] = l]
  /\ outcome' = [outcome EXCEPT ![p] = "none"]

\* the method p runs ends (returns or throws) with outcome o
Finish(p, o) ==
  /\ pc' = [pc EXCEPT ![p] = "idle"]
  /\ local' = [local EXCEPT ![p] = NoLocal]
  /\ outcome' = [outcome EXCEPT ![p] = o]

\* ---- initial state: an empty directory, no repository ----------------------
Init ==
  /\ objectsDir = FALSE
  /\ headFile = [exists |-> FALSE, content |-> ""]
  /\ indexFile = [exists |-> FALSE, content |-> <<>>]
  /\ objects = [h \in {} |-> Blob("")]
  /\ sha1 = <<>>
  /\ pc = [p \in Procs |-> "idle"]
  /\ local = [p \in Procs |-> NoLocal]
  /\ outcome = [p \in Procs |-> "none"]
  /\ committed = <<>>
  /\ staged = <<>>
  /\ crashes = 0

\* ---- init() -----------------------------------------------------------------
\* fs.mkdir(objectsPath, {recursive: true})
InitMkdir(p) ==
  /\ pc[p] = "idle"
  /\ objectsDir' = TRUE
  /\ Goto(p, "init_head", NoLocal)
  /\ UNCHANGED <<headFile, indexFile, objects, sha1, committed, staged, crashes>>

\* fs.writeFile(headPath, "", {flag: "wx"}); EEXIST is caught and logged
InitWriteHeadTruncates(p) ==
  /\ pc[p] = "init_head"
  /\ headFile' = [exists |-> TRUE, content |-> ""]
  /\ Goto(p, "init_index", NoLocal)
  /\ UNCHANGED <<objectsDir, indexFile, objects, sha1, committed, staged, crashes>>
InitWriteHead(p) ==
  /\ pc[p] = "init_head"
  /\ IF headFile.exists
     THEN /\ Finish(p, "already")
          /\ UNCHANGED headFile
     ELSE /\ headFile' = [exists |-> TRUE, content |-> ""]
          /\ Goto(p, "init_index", NoLocal)
  /\ UNCHANGED <<objectsDir, indexFile, objects, sha1, committed, staged, crashes>>

\* fs.writeFile(indexPath, "[]", {flag: "wx"}); EEXIST is caught and logged
InitWriteIndex(p) ==
  /\ pc[p] = "init_index"
  /\ IF indexFile.exists
     THEN /\ Finish(p, "already")
          /\ UNCHANGED indexFile
     ELSE /\ indexFile' = [exists |-> TRUE, content |-> <<>>]
          /\ Finish(p, "ok")
  /\ UNCHANGED <<objectsDir, headFile, objects, sha1, committed, staged, crashes>>

\* ---- add(fileToBeAdded) ------------------------------------------------------
\* fs.readFile(fileToBeAdded) then hashObject(fileData); data is what the
\* working tree holds at that path, ENOENT when there is no such file
AddReadFileIgnoresError(p, file, data) ==
  /\ pc[p] = "idle"
  /\ NumEntries < MaxAdds
  /\ LET d == IF data = ENOENT THEN "" ELSE data
     IN /\ sha1' = Intern(Blob(d))
        /\ Goto(p, "add_write",
                [NoLocal EXCEPT !.path = file, !.fileData = d,
                                !.fileHash = hashObject(Blob(d))])
  /\ UNCHANGED <<objectsDir, headFile, indexFile, objects, committed, staged, crashes>>
AddReadFile(p, file, data) ==
  /\ pc[p] = "idle"
  /\ NumEntries < MaxAdds
  /\ IF data = ENOENT
     THEN /\ Finish(p, "error")
          /\ UNCHANGED sha1
     ELSE /\ sha1' = Intern(Blob(data))
          /\ Goto(p, "add_write",
                  [NoLocal EXCEPT !.path = file, !.fileData = data,
                                  !.fileHash = hashObject(Blob(data))])
  /\ UNCHANGED <<objectsDir, headFile, indexFile, objects, committed, staged, crashes>>

\* fs.writeFile(newFileHashedObjectPath, fileData); rejects when the objects
\* directory does not exist
AddWriteObjectLost(p) ==
  /\ pc[p] = "add_write"
  /\ IF objectsDir THEN Goto(p, "add_index", local[p]) ELSE Finish(p, "error")
  /\ UNCHANGED <<repo, sha1, committed, staged, crashes>>
AddWriteObject(p) ==
  /\ pc[p] = "add_write"
  /\ IF objectsDir
     THEN /\ objects' = WriteObject(local[p].fileHash, Blob(local[p].fileData))
          /\ Goto(p, "add_index", local[p])
     ELSE /\ Finish(p, "error")
          /\ UNCHANGED objects
  /\ UNCHANGED <<objectsDir, headFile, indexFile, sha1, committed, staged, crashes>>

\* the index after index.push({path, hash})
PushReplacesSamePath(index, filePath, fileHash) ==
  IF \E i \in 1..Len(index) : index[i].path = filePath
  THEN [i \in 1..Len(index) |->
          IF index[i].path = filePath THEN [path |-> filePath, hash |-> fileHash]
          ELSE index[i]]
  ELSE Append(index, [path |-> filePath, hash |-> fileHash])
Push(index, filePath, fileHash) == Append(index, [path |-> filePath, hash |-> fileHash])

\* updateStagingArea: JSON.parse(await fs.readFile(indexPath)) and index.push
UpdateStagingAreaRead(p) ==
  /\ pc[p] = "add_index"
  /\ IF indexFile.exists
     THEN Goto(p, "add_indexWrite",
               [local[p] EXCEPT !.index =
                  Push(indexFile.content, local[p].path, local[p].fileHash)])
     ELSE Finish(p, "error")
  /\ UNCHANGED <<objectsDir, headFile, indexFile, objects, sha1, committed, staged, crashes>>

\* updateStagingArea: fs.writeFile(indexPath, JSON.stringify(index)), then add returns
UpdateStagingAreaWriteAtomic(p) ==
  /\ pc[p] = "add_indexWrite"
  /\ indexFile' = [exists |-> TRUE,
                   content |-> Push(indexFile.content, local[p].path, local[p].fileHash)]
  /\ staged' = Append(staged, [path |-> local[p].path, hash |-> local[p].fileHash])
  /\ Finish(p, "ok")
  /\ UNCHANGED <<objectsDir, headFile, objects, sha1, committed, crashes>>
UpdateStagingAreaWrite(p) ==
  /\ pc[p] = "add_indexWrite"
  /\ indexFile' = [exists |-> TRUE, content |-> local[p].index]
  /\ staged' = Append(staged, [path |-> local[p].path, hash |-> local[p].fileHash])
  /\ Finish(p, "ok")
  /\ UNCHANGED <<objectsDir, headFile, objects, sha1, committed, crashes>>

\* ---- commit(message) ----------------------------------------------------------
\* JSON.parse(await fs.readFile(indexPath)); rejects when there is no index
CommitReadIndexRejectsEmpty(p, message) ==
  /\ pc[p] = "idle"
  /\ NumCommitsHashed < MaxCommits
  /\ IF indexFile.exists /\ indexFile.content # <<>>
     THEN Goto(p, "commit_head",
               [NoLocal EXCEPT !.index = indexFile.content, !.message = message])
     ELSE Finish(p, "error")
  /\ UNCHANGED <<objectsDir, headFile, indexFile, objects, sha1, committed, staged, crashes>>
CommitReadIndex(p, message) ==
  /\ pc[p] = "idle"
  /\ NumCommitsHashed < MaxCommits
  /\ IF indexFile.exists
     THEN Goto(p, "commit_head",
               [NoLocal EXCEPT !.index = indexFile.content, !.message = message])
     ELSE Finish(p, "error")
  /\ UNCHANGED <<objectsDir, headFile, indexFile, objects, sha1, committed, staged, crashes>>

\* new Date(): the clock advances between any two commits, so the time read is
\* later than the timestamp of every commit built before
Now == NumCommitsHashed

\* await getCurrentHead(), then commitData is built and hashed
CommitReadHead(p) ==
  /\ pc[p] = "commit_head"
  /\ LET l == [local[p] EXCEPT !.parentCommit = getCurrentHead, !.timeStamp = Now]
     IN /\ sha1' = Intern(commitData(l))
        /\ Goto(p, "commit_object", [l EXCEPT !.commitHash = hashObject(commitData(l))])
  /\ UNCHANGED <<objectsDir, headFile, indexFile, objects, committed, staged, crashes>>

\* fs.writeFile(commitPath, JSON.stringify(commitData))
CommitWriteObjectLost(p) ==
  /\ pc[p] = "commit_object"
  /\ IF objectsDir THEN Goto(p, "commit_writeHead", local[p]) ELSE Finish(p, "error")
  /\ UNCHANGED <<repo, sha1, committed, staged, crashes>>
CommitWriteObjectClearsIndex(p) ==
  /\ pc[p] = "commit_object"
  /\ IF objectsDir
     THEN /\ objects' = WriteObject(local[p].commitHash, commitData(local[p]))
          /\ indexFile' = [exists |-> TRUE, content |-> <<>>]
          /\ Goto(p, "commit_writeHead", local[p])
     ELSE /\ Finish(p, "error")
          /\ UNCHANGED <<objects, indexFile>>
  /\ UNCHANGED <<objectsDir, headFile, sha1, committed, staged, crashes>>
CommitWriteObject(p) ==
  /\ pc[p] = "commit_object"
  /\ IF objectsDir
     THEN /\ objects' = WriteObject(local[p].commitHash, commitData(local[p]))
          /\ Goto(p, "commit_writeHead", local[p])
     ELSE /\ Finish(p, "error")
          /\ UNCHANGED objects
  /\ UNCHANGED <<objectsDir, headFile, indexFile, sha1, committed, staged, crashes>>

\* fs.writeFile(headPath, commitHash)
CommitWriteHead(p) ==
  /\ pc[p] = "commit_writeHead"
  /\ headFile' = [exists |-> TRUE, content |-> local[p].commitHash]
  /\ Goto(p, "commit_writeIndex", local[p])
  /\ UNCHANGED <<objectsDir, indexFile, objects, sha1, committed, staged, crashes>>

\* fs.writeFile(indexPath, JSON.stringify([])), then commit returns
CommitWriteIndex(p) ==
  /\ pc[p] = "commit_writeIndex"
  /\ indexFile' = [exists |-> TRUE, content |-> <<>>]
  /\ committed' = Append(committed, local[p].commitHash)
  /\ staged' = <<>>
  /\ Finish(p, "ok")
  /\ UNCHANGED <<objectsDir, headFile, objects, sha1, crashes>>

\* ---- log() ----------------------------------------------------------------------
\* let currentCommitHash = await getCurrentHead()
LogReadHead(p) ==
  /\ pc[p] = "idle"
  /\ Goto(p, "log_loop", [NoLocal EXCEPT !.currentCommitHash = getCurrentHead])
  /\ UNCHANGED <<repo, sha1, committed, staged, crashes>>

\* one iteration of the while loop: read and parse the object, print it, follow parent;
\* the read rejects when the object is missing, JSON.parse throws on a blob
LogReadCommitMovesHead(p) ==
  /\ pc[p] = "log_loop"
  /\ Truthy(local[p].currentCommitHash)
  /\ LET h == local[p].currentCommitHash
     IN IF h \in DOMAIN objects /\ IsCommit(objects[h])
        THEN /\ headFile' = [exists |-> TRUE, content |-> objects[h].parent]
             /\ Goto(p, "log_loop",
                     [local[p] EXCEPT !.out = Append(@, h),
                                      !.currentCommitHash = objects[h].parent])
        ELSE /\ Finish(p, "error")
             /\ UNCHANGED headFile
  /\ UNCHANGED <<objectsDir, indexFile, objects, sha1, committed, staged, crashes>>
LogReadCommitSwallowsError(p) ==
  /\ pc[p] = "log_loop"
  /\ Truthy(local[p].currentCommitHash)
  /\ LET h == local[p].currentCommitHash
     IN IF h \in DOMAIN objects /\ IsCommit(objects[h])
        THEN Goto(p, "log_loop",
                  [local[p] EXCEPT !.out = Append(@, h),
                                   !.currentCommitHash = objects[h].parent])
        ELSE Finish(p, "ok")
  /\ UNCHANGED <<repo, sha1, committed, staged, crashes>>
LogReadCommit(p) ==
  /\ pc[p] = "log_loop"
  /\ Truthy(local[p].currentCommitHash)
  /\ LET h == local[p].currentCommitHash
     IN IF h \in DOMAIN objects /\ IsCommit(objects[h])
        THEN Goto(p, "log_loop",
                  [local[p] EXCEPT !.out = Append(@, h),
                                   !.currentCommitHash = objects[h].parent])
        ELSE Finish(p, "error")
  /\ UNCHANGED <<repo, sha1, committed, staged, crashes>>

\* the while condition is falsy: log returns
LogReturn(p) ==
  /\ pc[p] = "log_loop"
  /\ ~Truthy(local[p].currentCommitHash)
  /\ Finish(p, "ok")
  /\ UNCHANGED <<repo, sha1, committed, staged, crashes>>

\* ---- showCommitDiff(commitHash) ------------------------------------------------------
\* getFileContent(fileHash): the content of the object, undefined when the read fails
getFileContent(fileHash) ==
  IF fileHash \in DOMAIN objects /\ IsBlob(objects[fileHash])
  THEN objects[fileHash].data
  ELSE undefined

\* getParentFileContent: the blob of the first entry of the parent's files whose path
\* is filePath (Array.find), undefined when there is none
getParentFileContentLastMatch(parentCommitData, filePath) ==
  LET I == {i \in 1..Len(parentCommitData.files) : parentCommitData.files[i].path = filePath}
  IN IF I = {} THEN undefined
     ELSE getFileContent(parentCommitData.files[CHOOSE i \in I : \A j \in I : j <= i].hash)
getParentFileContent(parentCommitData, filePath) ==
  LET I == {i \in 1..Len(parentCommitData.files) : parentCommitData.files[i].path = filePath}
  IN IF I = {} THEN undefined
     ELSE getFileContent(parentCommitData.files[CHOOSE i \in I : \A j \in I : i <= j].hash)

\* what show prints for one file: a diff of two contents, or "New file in this commit"
DiffLine(filePath, old, new) == [kind |-> "diff", path |-> filePath, old |-> old, new |-> new]
NewFileLine(filePath) == [kind |-> "new", path |-> filePath, old |-> "", new |-> ""]
FirstCommitLine == [kind |-> "first", path |-> "", old |-> "", new |-> ""]

\* arguments of show: the hashes of the stored objects and one that names nothing
ShowArgs == DOMAIN objects \cup {NoSuchHash}

\* JSON.parse(await getCommitData(commitHash)): getCommitData returns undefined when
\* the read fails and JSON.parse(undefined) throws, as it does on the text of a blob;
\* a commit without a truthy parent takes the else branch (line 187)
ShowReadCommitAlwaysLoadsParent(p, commitHash) ==
  /\ pc[p] = "idle"
  /\ IF commitHash \in DOMAIN objects /\ IsCommit(objects[commitHash])
     THEN Goto(p, "show_parent", [NoLocal EXCEPT !.commitHash = commitHash])
     ELSE Finish(p, "error")
  /\ UNCHANGED <<repo, sha1, committed, staged, crashes>>
ShowReadCommit(p, commitHash) ==
  /\ pc[p] = "idle"
  /\ IF commitHash \in DOMAIN objects /\ IsCommit(objects[commitHash])
     THEN IF Truthy(objects[commitHash].parent)
          THEN Goto(p, "show_parent", [NoLocal EXCEPT !.commitHash = commitHash])
          ELSE Goto(p, "show_return",
                    [NoLocal EXCEPT !.commitHash = commitHash, !.out = <<FirstCommitLine>>])
     ELSE Finish(p, "error")
  /\ UNCHANGED <<repo, sha1, committed, staged, crashes>>

\* JSON.parse(await getCommitData(parentCommitHash)); throws when the parent is missing
ShowReadParent(p) ==
  /\ pc[p] = "show_parent"
  /\ LET parentCommitHash == objects[local[p].commitHash].parent
     IN IF parentCommitHash \in DOMAIN objects /\ IsCommit(objects[parentCommitHash])
        THEN Goto(p, "show_files",
                  [local[p] EXCEPT !.parentCommit = parentCommitHash, !.fileNo = 1])
        ELSE Finish(p, "error")
  /\ UNCHANGED <<repo, sha1, committed, staged, crashes>>

\* one iteration of the for loop (lines 155-182); its reads are of stored objects only.
\* diffLines throws when the file's own blob cannot be read
ShowFile(p) ==
  /\ pc[p] = "show_files"
  /\ local[p].fileNo <= Len(objects[local[p].commitHash].files)
  /\ LET file == objects[local[p].commitHash].files[local[p].fileNo]
         fileContent == getFileContent(file.hash)
         parentFileContent == getParentFileContent(objects[local[p].parentCommit], file.path)
     IN IF parentFileContent # undefined
        THEN IF fileContent = undefined
             THEN Finish(p, "error")
             ELSE Goto(p, "show_files",
                       [local[p] EXCEPT !.fileNo = @ + 1,
                          !.out = Append(@, DiffLine(file.path, parentFileContent, fileContent))])
        ELSE Goto(p, "show_files",
                  [local[p] EXCEPT !.fileNo = @ + 1, !.out = Append(@, NewFileLine(file.path))])
  /\ UNCHANGED <<repo, sha1, committed, staged, crashes>>

\* showCommitDiff returns
ShowReturn(p) ==
  /\ \/ pc[p] = "show_return"
     \/ /\ pc[p] = "show_files"
        /\ local[p].fileNo > Len(objects[local[p].commitHash].files)
  /\ Finish(p, "ok")
  /\ UNCHANGED <<repo, sha1, committed, staged, crashes>>

\* ---- environment ------------------------------------------------------------------
\* awaits reached after the running method has written to disk
AfterWrite ==
  {"init_head", "init_index", "add_index", "add_indexWrite",
   "commit_writeHead", "commit_writeIndex"}

\* the process running a method dies after one of its writes and before the
\* next (a death before the first write leaves the disk as it was)
Crash(p) ==
  /\ pc[p] \in AfterWrite
  /\ crashes < MaxCrashes
  /\ crashes' = crashes + 1
  /\ Finish(p, "crash")
  /\ UNCHANGED <<repo, sha1, committed, staged>>

\* a commit object is removed from the store by hand while no method runs
\* (history corrupted from outside the program)
Corrupt(h) ==
  /\ \A p \in Procs : pc[p] = "idle"
  /\ h \in DOMAIN objects
  /\ IsCommit(objects[h])
  /\ objects' = [g \in DOMAIN objects \ {h} |-> objects[g]]
  /\ UNCHANGED <<objectsDir, headFile, indexFile, sha1, pc, local, outcome,
                 committed, staged, crashes>>

\* ---- specifications ------------------------------------------------------------------
Step(p) ==
  \/ InitMkdir(p) \/ InitWriteHead(p) \/ InitWriteIndex(p)
  \/ \E file \in Paths, data \in Contents \cup {ENOENT} : AddReadFile(p, file, data)
  \/ AddWriteObject(p) \/ UpdateStagingAreaRead(p) \/ UpdateStagingAreaWrite(p)
  \/ \E message \in Messages : CommitReadIndex(p, message)
  \/ CommitReadHead(p) \/ CommitWriteObject(p) \/ CommitWriteHead(p)
  \/ CommitWriteIndex(p)
  \/ LogReadHead(p) \/ LogReadCommit(p) \/ LogReturn(p)

ShowStep(p) ==
  \/ \E commitHash \in ShowArgs : ShowReadCommit(p, commitHash)
  \/ ShowReadParent(p) \/ ShowFile(p) \/ ShowReturn(p)

\* single writer: one caller, whose methods run one at a time and to completion
Writer == 1
Next == Step(Writer)
Spec == Init /\ [][Next]_vars

\* methods run one at a time; a method may be cut short by a crash
NextCrash == Next \/ Crash(Writer)
SpecCrash == Init /\ [][NextCrash]_vars

\* single writer, with show among the methods
NextShow == Next \/ ShowStep(Writer)
SpecShow == Init /\ [][NextShow]_vars

\* single writer with show; a method may be cut short by a crash
NextShowCrash == NextShow \/ Crash(Writer)
SpecShowCrash == Init /\ [][NextShowCrash]_vars

\* single writer, and commit objects may vanish between two methods
NextCorrupt == Next \/ \E h \in DOMAIN objects : Corrupt(h)
SpecCorrupt == Init /\ [][NextCorrupt]_vars

\* no single-writer discipline: the callers run init (started un-awaited by every
\* constructor) and add concurrently, their awaits interleaved in any order
ConcStep(p) ==
  \/ InitMkdir(p) \/ InitWriteHead(p) \/ InitWriteIndex(p)
  \/ \E file \in Paths, data \in Contents \cup {ENOENT} : AddReadFile(p, file, data)
  \/ AddWriteObject(p) \/ UpdateStagingAreaRead(p) \/ UpdateStagingAreaWrite(p)
\* the two Groot instances of one command: the module-level one and the one the
\* command's action constructs
Second == 2
Racers == {Writer, Second}
NextConc == \E p \in Racers : ConcStep(p)
SpecConc == Init /\ [][NextConc]_vars

TypeOK ==
  /\ objectsDir \in BOOLEAN
  /\ headFile.exists \in BOOLEAN
  /\ indexFile.exists \in BOOLEAN
  /\ \A p \in Procs : outcome[p] \in {"none", "ok", "error", "already", "crash"}

\* ---- properties -----------------------------------------------------------------------
StoredCommit(h) == h \in DOMAIN objects /\ IsCommit(objects[h])
StoredBlob(h) == h \in DOMAIN objects /\ IsBlob(objects[h])

RECURSIVE Reverse(_)
Reverse(s) == IF s = <<>> THEN <<>> ELSE Append(Reverse(Tail(s)), Head(s))

IsPrefix(s, t) == Len(s) <= Len(t) /\ \A i \in 1..Len(s) : s[i] = t[i]

\* C1: in every reachable state, intermediate states of commit and states left by
\* a crash included, HEAD is absent, empty, or names a commit present in the store.
C1_HeadResolves ==
  (headFile.exists /\ headFile.content # "") => StoredCommit(headFile.content)

\* a crash between the HEAD write and the index write of commit
C1_Witness ==
  /\ outcome[Writer] = "crash"
  /\ headFile.content # ""
  /\ indexFile.content # <<>>
  /\ objects[headFile.content].files = indexFile.content

\* C2 (as claimed): every non-null parent of a stored commit names a stored commit,
\* the first commit of a repository included.
C2_ParentResolves ==
  \A h \in DOMAIN objects :
    (IsCommit(objects[h]) /\ objects[h].parent # null) => StoredCommit(objects[h].parent)

\* C3 (as claimed): the commit just stored records parent = null when HEAD was
\* empty (no prior commit), and otherwise the value HEAD held before the write.
C3_ParentNullOrHead ==
  \A p \in Procs :
    pc[p] = "commit_writeHead" =>
      objects[local[p].commitHash].parent =
        (IF headFile.content = "" THEN null ELSE headFile.content)

\* C4: with methods run one at a time, log never fails, prints only commits that
\* ran to completion, most recent first, and when its loop ends it has printed
\* exactly the N completed commits, each once, in the reverse of commit order.
C4_LogReportsCommits ==
  \A p \in Procs :
    pc[p] = "log_loop" =>
      /\ IsPrefix(local[p].out, Reverse(committed))
      /\ IF Truthy(local[p].currentCommitHash)
         THEN /\ StoredCommit(local[p].currentCommitHash)
              /\ Len(local[p].out) < Len(committed)
         ELSE local[p].out = Reverse(committed)

\* log has printed two commits and its loop has ended
C4_Witness ==
  /\ pc[Writer] = "log_loop"
  /\ ~Truthy(local[Writer].currentCommitHash)
  /\ Len(local[Writer].out) = 2
  /\ Len(committed) = 2

\* C5: in every reachable state every hash of an index entry and every hash in
\* the files list of a stored commit names a blob present in the store.
C5_EntriesResolve ==
  /\ \A i \in 1..Len(indexFile.content) : StoredBlob(indexFile.content[i].hash)
  /\ \A h \in DOMAIN objects :
       IsCommit(objects[h]) =>
         \A i \in 1..Len(objects[h].files) : StoredBlob(objects[h].files[i].hash)

\* an add is between its blob write and its index write, on a repository that
\* holds a commit with entries
C5_Witness ==
  /\ pc[Writer] = "add_indexWrite"
  /\ StoredBlob(local[Writer].fileHash)
  /\ \E h \in DOMAIN objects : IsCommit(objects[h]) /\ objects[h].files # <<>>

\* C6 (as claimed): no state, intermediate or left by a crash, has HEAD naming the
\* new commit while the index still holds the entries that went into that commit.
C6_ClearedWithHead ==
  \A p \in Procs :
    pc[p] = "commit_writeIndex" =>
      ~(/\ headFile.content = local[p].commitHash
        /\ indexFile.content # <<>>
        /\ indexFile.content = objects[local[p].commitHash].files)

\* C6 (amended): the index is cleared by a write of its own that follows the HEAD
\* update: whenever a step empties a non-empty index, HEAD already names a stored
\* commit whose files list is the index being cleared, and the step leaves HEAD alone.
C6_ClearFollowsHead ==
  [][(indexFile.content # <<>> /\ indexFile'.content = <<>>) =>
       /\ StoredCommit(headFile.content)
       /\ objects[headFile.content].files = indexFile.content
       /\ headFile' = headFile]_vars

\* a commit of staged entries has run to completion
C6_Witness ==
  /\ pc[Writer] = "idle"
  /\ outcome[Writer] = "ok"
  /\ indexFile.content = <<>>
  /\ StoredCommit(headFile.content)
  /\ objects[headFile.content].files # <<>>
  /\ committed # <<>>
  /\ committed[Len(committed)] = headFile.content

\* C7: the step that completes commit leaves the index empty, and the commit it
\* stored lists exactly the entries the index held until then (the index as it
\* was when commit started, methods being run one at a time).
C7_CommitClearsIndex ==
  [][\A p \in Procs :
       (pc[p] = "commit_writeIndex" /\ pc'[p] = "idle" /\ outcome'[p] = "ok") =>
         /\ indexFile'.content = <<>>
         /\ local[p].commitHash \in DOMAIN objects'
         /\ objects'[local[p].commitHash].files = indexFile.content
         /\ indexFile.content = local[p].index]_vars

\* a completed commit that took two entries out of the index
C7_Witness ==
  /\ pc[Writer] = "idle"
  /\ outcome[Writer] = "ok"
  /\ indexFile.content = <<>>
  /\ StoredCommit(headFile.content)
  /\ Len(objects[headFile.content].files) = 2

\* C8: the index is exactly the entries of the adds completed since the last
\* commit, in the order of the adds (same path or not), and the commit object
\* written next carries exactly those entries in that order.
C8_IndexIsAddsInOrder ==
  /\ indexFile.content = staged
  /\ \A p \in Procs :
       pc[p] \in {"commit_writeHead", "commit_writeIndex"} =>
         objects[local[p].commitHash].files = staged

\* two adds of one path with different contents, then the commit object written
C8_Witness ==
  /\ pc[Writer] = "commit_writeHead"
  /\ Len(staged) = 2
  /\ staged[1].path = staged[2].path
  /\ staged[1].hash # staged[2].hash

\* C9: add of a path with no source file ends with an error and changes nothing
\* on disk: no object written, index and HEAD as they were.
C9_AddMissingFile ==
  [][\A p \in Procs, file \in Paths :
       AddReadFile(p, file, ENOENT) =>
         /\ pc'[p] = "idle"
         /\ outcome'[p] = "error"
         /\ UNCHANGED repo]_vars

\* a failed add on a repository whose index holds an entry
C9_Witness ==
  /\ pc[Writer] = "idle"
  /\ outcome[Writer] = "error"
  /\ indexFile.exists
  /\ indexFile.content # <<>>

\* C10: no step removes an object or changes the content under an existing hash;
\* every object is stored under the hash of its content, so equal contents share
\* one object; writing a blob whose hash is already stored leaves the store as it was.
C10_WriteOnce ==
  [][/\ \A h \in DOMAIN objects : h \in DOMAIN objects' /\ objects'[h] = objects[h]
     /\ \A h \in DOMAIN objects' : (hashObject(objects[h]) = h)'
     /\ \A g, h \in DOMAIN objects' : objects'[g] = objects'[h] => g = h
     /\ \A p \in Procs :
          (pc[p] = "add_write" /\ local[p].fileHash \in DOMAIN objects) =>
            objects' = objects]_vars

\* one content staged under two paths is stored as one object
C10_Witness ==
  /\ Len(indexFile.content) = 2
  /\ indexFile.content[1].path # indexFile.content[2].path
  /\ indexFile.content[1].hash = indexFile.content[2].hash
  /\ Cardinality({h \in DOMAIN objects : IsBlob(objects[h])}) = 1

\* the steps of add, of log and of init
AddStep(p) ==
  \/ \E file \in Paths, data \in Contents \cup {ENOENT} : AddReadFile(p, file, data)
  \/ AddWriteObject(p) \/ UpdateStagingAreaRead(p) \/ UpdateStagingAreaWrite(p)
LogStep(p) == LogReadHead(p) \/ LogReadCommit(p) \/ LogReturn(p)
InitStep(p) == InitMkdir(p) \/ InitWriteHead(p) \/ InitWriteIndex(p)

Initialised == objectsDir /\ headFile.exists /\ indexFile.exists

\* C11: on an initialised repository every step of init leaves the objects
\* directory, HEAD, the index and every stored object exactly as they were.
C11_ReinitKeepsData ==
  [][\A p \in Procs : (Initialised /\ InitStep(p)) => UNCHANGED repo]_vars

\* init has returned on a repository that holds a commit and a staged entry
C11_Witness ==
  /\ pc[Writer] = "idle"
  /\ outcome[Writer] = "already"
  /\ headFile.content # ""
  /\ indexFile.content # <<>>

\* C12: the hash HEAD holds changes only in commit's HEAD write; no step of add,
\* log or show changes HEAD, and no step of log or show changes anything on disk.
C12_HeadOnlyByCommit ==
  [][/\ headFile'.content # headFile.content => \E p \in Procs : CommitWriteHead(p)
     /\ \A p \in Procs :
          /\ (AddStep(p) \/ LogStep(p) \/ ShowStep(p)) => headFile' = headFile
          /\ (LogStep(p) \/ ShowStep(p)) => UNCHANGED repo]_vars

\* show is running on a commit that has a parent while the index holds an entry
C12_Witness ==
  /\ pc[Writer] = "show_parent"
  /\ headFile.content # ""
  /\ indexFile.content # <<>>

\* C13 (as claimed): show of a hash that names no stored object ends with the
\* controlled not-found outcome (the "Commit Not found" report) and changes nothing.
C13_ShowMissingNotFound ==
  [][\A p \in Procs :
       (Initialised /\ ShowReadCommit(p, NoSuchHash)) =>
         /\ pc'[p] = "idle"
         /\ outcome'[p] = "notfound"
         /\ UNCHANGED repo]_vars

\* positions of the parent's entries for a path
ParentEntries(parentFiles, filePath) ==
  {j \in 1..Len(parentFiles) : parentFiles[j].path = filePath}

\* what show has to print for entry i of commit h whose parent is stored
Classified(h, i) ==
  LET file == objects[h].files[i]
      parentFiles == objects[objects[h].parent].files
      J == ParentEntries(parentFiles, file.path)
  IN IF J = {}
     THEN NewFileLine(file.path)
     ELSE LET first == CHOOSE j \in J : \A k \in J : j <= k
          IN DiffLine(file.path, objects[parentFiles[first].hash].data,
                      objects[file.hash].data)

\* C14: show of a commit with a parent has, after k iterations, printed for each of
\* the first k entries of the files list, in order, a diff against the blob of the
\* first parent entry with the same path, or the new-file line when the parent has
\* no entry with that path; it never fails, and ends after the last entry.
C14_ShowClassifiesEntries ==
  \A p \in Procs :
    pc[p] = "show_files" =>
      LET h == local[p].commitHash
      IN /\ StoredCommit(h)
         /\ StoredCommit(objects[h].parent)
         /\ local[p].parentCommit = objects[h].parent
         /\ Len(local[p].out) = local[p].fileNo - 1
         /\ local[p].fileNo <= Len(objects[h].files) + 1
         /\ \A i \in 1..Len(objects[h].files) : StoredBlob(objects[h].files[i].hash)
         /\ \A i \in 1..Len(local[p].out) : local[p].out[i] = Classified(h, i)

\* show has printed every entry of a commit; one entry's path occurs twice in the
\* parent with different blobs and was diffed, against the first of them
C14_Witness ==
  /\ pc[Writer] = "show_files"
  /\ local[Writer].fileNo > Len(objects[local[Writer].commitHash].files)
  /\ LET parentFiles == objects[local[Writer].parentCommit].files
     IN \E i \in 1..Len(local[Writer].out) :
          /\ local[Writer].out[i].kind = "diff"
          /\ \E j, k \in ParentEntries(parentFiles, local[Writer].out[i].path) :
               j < k /\ parentFiles[j].hash # parentFiles[k].hash

\* C15: show of a stored commit without a parent prints the first-commit line and
\* goes straight to its return: it loads no parent object and diffs no file.
C15_ShowFirstCommit ==
  [][\A p \in Procs, h \in ShowArgs :
       (ShowReadCommit(p, h) /\ StoredCommit(h) /\ ~Truthy(objects[h].parent)) =>
         /\ pc'[p] = "show_return"
         /\ local'[p].out = <<FirstCommitLine>>
         /\ UNCHANGED repo]_vars

\* show of a first commit that has files is about to return
C15_Witness ==
  /\ pc[Writer] = "show_return"
  /\ objects[local[Writer].commitHash].files # <<>>
  /\ local[Writer].out = <<FirstCommitLine>>

\* C16: while log walks, what it has printed is the chain of commits from HEAD, each
\* the parent of the one before, and the hash it holds is the parent of the last
\* one printed; when that hash names no stored object log's next step ends it with
\* an error (the commits printed so far stay printed, nothing more is printed).
C16_LogAbortsAtBrokenLink ==
  [][\A p \in Procs :
       pc[p] = "log_loop" =>
         LET out == local[p].out
             cur == local[p].currentCommitHash
         IN /\ IF out = <<>> THEN cur = getCurrentHead
               ELSE /\ out[1] = headFile.content
                    /\ objects[out[Len(out)]].parent = cur
            /\ \A i \in 1..Len(out) : StoredCommit(out[i])
            /\ \A i \in 1..(Len(out) - 1) : out[i + 1] = objects[out[i]].parent
            /\ (Truthy(cur) /\ cur \notin DOMAIN objects) =>
                 (pc'[p] = "idle" /\ outcome'[p] = "error")]_vars

\* log has printed the newest commit and holds a parent hash that names no object
C16_Witness ==
  /\ pc[Writer] = "log_loop"
  /\ Len(local[Writer].out) >= 1
  /\ Truthy(local[Writer].currentCommitHash)
  /\ local[Writer].currentCommitHash \notin DOMAIN objects

C18_EmptyCommit ==
  [][\A p \in Procs :
       /\ ((\E message \in Messages : CommitReadIndex(p, message))
              /\ indexFile.exists /\ indexFile.content = <<>>) =>
            pc'[p] = "commit_head"
       /\ (pc[p] = "commit_writeIndex" /\ local[p].index = <<>> /\ pc'[p] = "idle") =>
            /\ outcome'[p] = "ok"
            /\ StoredCommit(local[p].commitHash)
            /\ objects[local[p].commitHash].files = <<>>
            /\ headFile'.content = local[p].commitHash
            /\ indexFile'.content = <<>>
            /\ committed' = Append(committed, local[p].commitHash)
       /\ (pc[p] = "log_loop" /\ ~Truthy(local[p].currentCommitHash)) =>
            \A i \in 1..Len(committed) :
              \E j \in 1..Len(local[p].out) : local[p].out[j] = committed[i]]_vars

\* a finished log has printed two commits, one of them with an empty files list
C18_Witness ==
  /\ pc[Writer] = "log_loop"
  /\ ~Truthy(local[Writer].currentCommitHash)
  /\ Len(local[Writer].out) = 2
  /\ \E j \in 1..2 : objects[local[Writer].out[j]].files = <<>>
  /\ \E j \in 1..2 : objects[local[Writer].out[j]].files # <<>>

\* C19 (as claimed): whenever an add that runs beside an unfinished init writes
\* its object or reads the index, the repository is already fully initialised.
C19_OpAfterInit ==
  [][\A p \in Procs :
       ((\E q \in Procs \ {p} : pc[q] \in {"init_head", "init_index"})
          /\ (AddWriteObject(p) \/ UpdateStagingAreaRead(p))) =>
         Initialised]_vars

\* C20 (as claimed): whenever init returns, with or without the already-initialised
\* report, the objects directory, HEAD and the index all exist.
C20_InitReturnsInitialised ==
  [][\A p \in Procs : (InitStep(p) /\ pc'[p] = "idle") => Initialised']_vars

====
